---- MODULE Spec2Model ----
(***************************************************************************)
(* Model of IcyParser.parseOnce (the ICY stream demultiplexer) and of the  *)
(* parseMetadata decoder of CloudRadio-cz/icy-parser.                      *)
(*                                                                         *)
(* parseOnce is an async function: it runs atomically between two awaits.  *)
(* Every action below is one resumption of the function: the awaited       *)
(* promise (fetch, reader.read) settles with a result chosen by the        *)
(* environment, and the code runs up to its next await or to its end, the  *)
(* finally block included.                                                 *)
(*                                                                         *)
(* Bytes and UTF-16 code units are integers, byte arrays and strings are   *)
(* sequences.  JavaScript numbers that can be fractional (the interval     *)
(* read from the header and what is computed from it) are kept in HALVES:  *)
(* the field h of a number holds twice its value, so 1.5 is h = 3.         *)
(***************************************************************************)
EXTENDS Integers, Sequences, FiniteSets, TLC

\* ------------------------------------------------------------------ bounds
MaxInterval == 2      \* positive header values go up to MaxInterval
MaxAudio    == 2      \* audio bytes sent before the metadata block
MaxChunk    == 2      \* chunk lengths 1..MaxChunk (or all that remains)
MaxTokens   == 4      \* tokens in an input string of the decoder

\* --------------------------------------------------------- program constants
BlockUnit == 16       \* lengthByte * 16
NUL       == 0
QUOTE     == 39       \* '
REPLACEMENT == 65533  \* U+FFFD, what TextDecoder emits for malformed input

Procs == {1, 2}       \* two parseOnce calls

Min(a, b) == IF a < b THEN a ELSE b
Max(a, b) == IF a > b THEN a ELSE b

\* ------------------------------------------------------- JavaScript helpers
\* A number in halves; nan marks NaN.
Num(h2)  == [nan |-> FALSE, h |-> h2]
NaN      == [nan |-> TRUE, h |-> 0]

\* Number(res.headers.get("icy-metaint")).  A header is absent (get returns
\* null, Number(null) = 0), the empty string (0), a text that is no numeral
\* (NaN), or a decimal numeral, written here as twice its value.
ToNumber(hdr) ==
  IF hdr.kind = "missing" THEN Num(0)
  ELSE IF hdr.kind = "empty" THEN Num(0)
  ELSE IF hdr.kind = "text" THEN NaN
  ELSE Num(hdr.h)

\* !x for a number: NaN and 0 are falsy.
Falsy(x) == x.nan \/ x.h = 0

\* a < x for an integer a; every comparison with NaN is false.
LessThan(a, x) == ~x.nan /\ 2 * a < x.h

\* ToIntegerOrInfinity of a number in halves: truncation toward zero, NaN -> 0.
ToInteger(x) ==
  IF x.nan THEN 0
  ELSE IF x.h >= 0 THEN x.h \div 2 ELSE 0 - ((0 - x.h) \div 2)

\* TypedArray.prototype.slice(start, end) with integer arguments: a negative
\* index counts from the end, both are clamped to 0..length.
Slice(a, start, end) ==
  LET len  == Len(a)
      from == IF start < 0 THEN Max(len + start, 0) ELSE Min(start, len)
      to   == IF end < 0 THEN Max(len + end, 0) ELSE Min(end, len)
  IN  SubSeq(a, from + 1, to)

\* faulty variant of concat: the new chunk is put before the bytes held
concatReversed(a, b) == b \o a

\* concat(a, b) of helpers.ts
concat(a, b) == a \o b

\* ----------------------------------------------------------- TextDecoder
\* new TextDecoder().decode(bytes): UTF-8, malformed sequences become U+FFFD
\* (one per maximal invalid prefix), a leading byte order mark is dropped,
\* code points above U+FFFF become a surrogate pair.
CodeUnits(cp) ==
  IF cp > 65535
  THEN << 55296 + ((cp - 65536) \div 1024), 56320 + ((cp - 65536) % 1024) >>
  ELSE << cp >>

InRange(b, i, lo, hi) == i <= Len(b) /\ b[i] >= lo /\ b[i] <= hi

RECURSIVE Utf8Decode(_, _)
Utf8Decode(b, i) ==
  IF i > Len(b) THEN << >>
  ELSE LET c == b[i] IN
    IF c < 128 THEN << c >> \o Utf8Decode(b, i + 1)
    ELSE IF c >= 194 /\ c <= 223 THEN
      IF InRange(b, i + 1, 128, 191)
      THEN CodeUnits((c - 192) * 64 + (b[i + 1] - 128)) \o Utf8Decode(b, i + 2)
      ELSE << REPLACEMENT >> \o Utf8Decode(b, i + 1)
    ELSE IF c >= 224 /\ c <= 239 THEN
      LET lo == IF c = 224 THEN 160 ELSE 128
          hi == IF c = 237 THEN 159 ELSE 191
      IN IF ~InRange(b, i + 1, lo, hi)
         THEN << REPLACEMENT >> \o Utf8Decode(b, i + 1)
         ELSE IF ~InRange(b, i + 2, 128, 191)
         THEN << REPLACEMENT >> \o Utf8Decode(b, i + 2)
         ELSE CodeUnits((c - 224) * 4096 + (b[i + 1] - 128) * 64 + (b[i + 2] - 128))
                \o Utf8Decode(b, i + 3)
    ELSE IF c >= 240 /\ c <= 244 THEN
      LET lo == IF c = 240 THEN 144 ELSE 128
          hi == IF c = 244 THEN 143 ELSE 191
      IN IF ~InRange(b, i + 1, lo, hi)
         THEN << REPLACEMENT >> \o Utf8Decode(b, i + 1)
         ELSE IF ~InRange(b, i + 2, 128, 191)
         THEN << REPLACEMENT >> \o Utf8Decode(b, i + 2)
         ELSE IF ~InRange(b, i + 3, 128, 191)
         THEN << REPLACEMENT >> \o Utf8Decode(b, i + 3)
         ELSE CodeUnits((c - 240) * 262144 + (b[i + 1] - 128) * 4096
                         + (b[i + 2] - 128) * 64 + (b[i + 3] - 128))
                \o Utf8Decode(b, i + 4)
    ELSE << REPLACEMENT >> \o Utf8Decode(b, i + 1)

TextDecode(b) ==
  IF Len(b) >= 3 /\ b[1] = 239 /\ b[2] = 187 /\ b[3] = 191
  THEN Utf8Decode(b, 4)
  ELSE Utf8Decode(b, 1)

\* only NULs from index i to the end of s
IsNulRun(s, i) == \A j \in i..Len(s) : s[j] = NUL

\* faulty variant of ReplaceTrailingNul: s.replace(/\0+/g, ""): every NUL is removed
RECURSIVE ReplaceAllNul(_)
ReplaceAllNul(s) ==
  IF s = << >> THEN << >>
  ELSE IF Head(s) = NUL THEN ReplaceAllNul(Tail(s))
  ELSE << Head(s) >> \o ReplaceAllNul(Tail(s))

\* s.replace(/\0+$/, ""): the leftmost index from which only NULs follow up
\* to the end of the string starts the match, which is removed; without a
\* match the string is returned as it is.

ReplaceTrailingNul(s) ==
  IF \E i \in 1..Len(s) : IsNulRun(s, i)
  THEN LET i == CHOOSE k \in 1..Len(s) :
                  IsNulRun(s, k) /\ \A m \in 1..(k - 1) : ~IsNulRun(s, m)
       IN  SubSeq(s, 1, i - 1)
  ELSE s

\* --------------------------------------------------------- parseMetadata
\* /StreamTitle='([^']*)'/.exec(raw)?.[1]
StreamTitleKey == << 83, 116, 114, 101, 97, 109, 84, 105, 116, 108, 101, 61, 39 >>

Undefined == [defined |-> FALSE, value |-> << >>]
Defined(v) == [defined |-> TRUE, value |-> v]

\* the literal StreamTitle=' matches at index i
KeyAt(s, i) ==
  /\ i + Len(StreamTitleKey) - 1 <= Len(s)
  /\ \A j \in 1..Len(StreamTitleKey) : s[i + j - 1] = StreamTitleKey[j]

\* [^']* from index i: the index after the longest run without a quote
RECURSIVE SkipNonQuote(_, _)
SkipNonQuote(s, i) ==
  IF i <= Len(s) /\ s[i] # QUOTE THEN SkipNonQuote(s, i + 1) ELSE i

\* the whole pattern matches at index i: key, [^']*, then a quote
MatchAt(s, i) ==
  /\ KeyAt(s, i)
  /\ SkipNonQuote(s, i + Len(StreamTitleKey)) <= Len(s)

\* faulty variant of Exec: /StreamTitle='(.*)'/: the value runs to the last quote
RECURSIVE ExecGreedy(_, _)
ExecGreedy(s, i) ==
  IF i > Len(s) THEN Undefined
  ELSE IF MatchAt(s, i)
  THEN Defined(SubSeq(s, i + Len(StreamTitleKey),
                      (CHOOSE q \in 1..Len(s) :
                         /\ s[q] = QUOTE
                         /\ \A m \in (q + 1)..Len(s) : s[m] # QUOTE) - 1))
  ELSE ExecGreedy(s, i + 1)

\* exec scans the start index from left to right
RECURSIVE Exec(_, _)
Exec(s, i) ==
  IF i > Len(s) THEN Undefined
  ELSE IF MatchAt(s, i)
  THEN Defined(SubSeq(s, i + Len(StreamTitleKey),
                      SkipNonQuote(s, i + Len(StreamTitleKey)) - 1))
  ELSE Exec(s, i + 1)

parseMetadata(raw) == [title |-> Exec(raw, 1)]

\* ------------------------------------------------------------- environment
\* What the server answers: the icy-metaint header and the body bytes.
Numeral(h2) == [kind |-> "numeral", h |-> h2]

\* the numerals of -1, 0, 1, ..., MaxInterval and of 1.5
HeaderValues ==
  { [kind |-> k, h |-> 0] : k \in {"missing", "empty", "text"} }
    \cup { Numeral(2 * n) : n \in (0 - 1)..MaxInterval }
    \cup { Numeral(3) }

Fill(n, b) == [i \in 1..n |-> b]

\* Metadata blocks as a server sends them (length byte, payload padded with
\* NULs to lengthByte * 16 bytes), each followed by the next audio bytes.
BlockEmpty   == << 0 >> \o << 65, 66 >>
BlockTitleY  == << 1 >> \o StreamTitleKey \o << 89, QUOTE, NUL >> \o << 65 >>
BlockNuls    == << 1 >> \o << 65, NUL, 66 >> \o Fill(13, NUL) \o << NUL, 66 >>
BlockAllNul  == << 1 >> \o Fill(16, NUL)
BlockUtf8    == << 1 >> \o StreamTitleKey \o << 195, 169, QUOTE >> \o << 255 >>
BlockTwoKeys == << 2 >> \o << 83, 116, 114, 101, 97, 109, 85, 114, 108, 61,
                             QUOTE, 117, QUOTE, 59 >>
                        \o StreamTitleKey \o << 97, QUOTE, 98, QUOTE, 59 >>
                        \o << 66 >>

Prefixes(s) == { SubSeq(s, 1, n) : n \in 0..Len(s) }

\* A body is audio bytes followed by a block.  The server may close the
\* stream after any byte: every prefix of a block in CutBlocks is a body; the
\* blocks in WholeBlocks are sent whole.
CutBlocks   == { BlockEmpty, BlockTitleY, BlockNuls, BlockUtf8 }
WholeBlocks == { BlockAllNul, BlockTwoKeys }

Bodies ==
  UNION { Prefixes(Fill(a, 1) \o blk) : a \in 1..MaxAudio, blk \in CutBlocks }
    \cup { Fill(a, 1) \o blk : a \in 1..MaxAudio, blk \in WholeBlocks }

\* ------------------------------------------------------------------- state
VARIABLES
  header,   \* header[p]: the icy-metaint header of the response
  body,     \* body[p]: the bytes of the response body
  whole,    \* whole[p]: the reader hands out all remaining bytes as one chunk
            \*           and rejects no read
  pos,      \* pos[p]: bytes of body[p] handed out by the reader so far
  pulls,    \* pulls[p]: reader.read() calls made
  closed,   \* closed[p]: the reader has answered done
  call,     \* call[p]: the activation of parseOnce: its locals, position
            \*          and outcome
  decIn,    \* input string of the decoder
  decOut    \* record built from the input string

vars == << header, body, whole, pos, pulls, closed, call, decIn, decOut >>

NoRecord == [returned |-> FALSE, raw |-> << >>, title |-> Undefined]

\* the activation before fetch has settled
NewCall ==
  [ pc             |-> "fetch",
    opened         |-> FALSE,        \* fetch has resolved with a response
    metaint        |-> Num(0),
    received       |-> 0,
    leftover       |-> << >>,
    overflow       |-> Num(0),
    metaStart      |-> << >>,
    lengthByte     |-> Undefined,
    metadataLength |-> Num(0),
    metadata       |-> << >>,
    block          |-> << >>,        \* metadata.slice(0, metadataLength)
    ret            |-> NoRecord,     \* the value the promise resolves to
    err            |-> "none",       \* the error the promise rejects with
    aborts         |-> 0,            \* controller.abort() calls
    releases       |-> 0,            \* reader.releaseLock() calls
    cleanup        |-> << >> ]       \* those calls, in the order made

\* ----------------------------------------------------- parseOnce, by parts
\* const v = x; F(v): x is computed once and F sees its value
Const(x, F(_)) == CHOOSE y \in { F(v) : v \in {x} } : TRUE

\* line 136: controller.abort()
abort(f) ==
  [f EXCEPT !.aborts = @ + 1, !.cleanup = Append(@, "abort")]

\* line 137: reader.releaseLock()
releaseLock(f) ==
  [f EXCEPT !.releases = @ + 1, !.cleanup = Append(@, "release")]

\* faulty variant of Finally: the reader is released before the abort
FinallyReleaseFirst(f) ==
  [abort(releaseLock(f)) EXCEPT !.pc = "done"]

\* finally { controller.abort(); reader.releaseLock() }
Finally(f) ==
  [releaseLock(abort(f)) EXCEPT !.pc = "done"]

\* faulty variant of ThrowInTry: the error is caught and dropped
ThrowSwallowed(f, e) == Finally(f)

\* throw new Error(e) inside the try block
ThrowInTry(f, e) == Finally([f EXCEPT !.err = e])

\* lines 125-134: { ...parseMetadata(raw), raw, ... }; the fields copied from
\* the response headers are left out
Record(raw) ==
  [returned |-> TRUE, raw |-> raw, title |-> parseMetadata(raw).title]

\* faulty variant of Return: metadata is decoded without slice(0, metadataLength)
ReturnUnsliced(f0) ==
  Const(f0, LAMBDA f :
  Const(TextDecode(f.metadata), LAMBDA decoded :
  Const(ReplaceTrailingNul(decoded), LAMBDA raw :
    Finally([f EXCEPT !.block = f.metadata, !.ret = Record(raw)]))))

\* faulty variant of Return: the bytes of metadata after the block are
\* returned with the record
ReturnWithLeftover(f0) ==
  Const(f0, LAMBDA f :
  Const(Slice(f.metadata, 0, ToInteger(f.metadataLength)), LAMBDA blk :
  Const(TextDecode(blk), LAMBDA decoded :
  Const(ReplaceTrailingNul(decoded), LAMBDA raw :
    Finally([f EXCEPT !.block = blk,
                      !.ret = [returned |-> TRUE, raw |-> raw,
                               title |-> parseMetadata(raw).title,
                               leftover |-> Slice(f.metadata, Len(blk),
                                                  Len(f.metadata))]])))))

\* lines 121-134: decode, trim, build the record, return
Return(f0) ==
  Const(f0, LAMBDA f :
  Const(Slice(f.metadata, 0, ToInteger(f.metadataLength)), LAMBDA blk :
  Const(TextDecode(blk), LAMBDA decoded :
  Const(ReplaceTrailingNul(decoded), LAMBDA raw :
    Finally([f EXCEPT !.block = blk, !.ret = Record(raw)])))))

\* faulty variant of PayloadLoop: one more read when the payload is complete
PayloadLoopOnceMore(f0) ==
  Const(f0, LAMBDA f :
    IF ~f.metadataLength.nan /\ 2 * Len(f.metadata) <= f.metadataLength.h
    THEN [f EXCEPT !.pc = "payloadRead"]
    ELSE Return(f))

\* lines 115-119, the loop test: read on, or leave the loop and return
PayloadLoop(f0) ==
  Const(f0, LAMBDA f :
    IF LessThan(Len(f.metadata), f.metadataLength)
    THEN [f EXCEPT !.pc = "payloadRead"]
    ELSE Return(f))

\* lines 110-113: metaStart[0] is undefined for an empty array, and
\* undefined * 16 is NaN
AfterMetaStart(f0, ms0) ==
  Const(f0, LAMBDA f :
  Const(ms0, LAMBDA ms :
  Const(IF Len(ms) = 0 THEN Undefined ELSE Defined(ms[1]), LAMBDA lb :
  Const(IF lb.defined THEN Num(2 * (lb.value * BlockUnit)) ELSE NaN, LAMBDA ml :
    PayloadLoop([f EXCEPT !.metaStart = ms, !.lengthByte = lb,
                          !.metadataLength = ml,
                          !.metadata = Slice(ms, 1, Len(ms))])))))

\* faulty variant of AfterSkip: the whole last chunk is taken as metaStart
AfterSkipWholeChunk(f0) ==
  Const(f0, LAMBDA f :
  Const(Num(2 * f.received - f.metaint.h), LAMBDA overflow :
    IF overflow.h > 0
    THEN AfterMetaStart([f EXCEPT !.overflow = overflow], f.leftover)
    ELSE [f EXCEPT !.overflow = overflow, !.pc = "metaRead"]))

\* faulty variant of AfterSkip: the slice starts one byte early
AfterSkipOffByOne(f0) ==
  Const(f0, LAMBDA f :
  Const(Num(2 * f.received - f.metaint.h), LAMBDA overflow :
    IF overflow.h > 0
    THEN AfterMetaStart([f EXCEPT !.overflow = overflow],
           Slice(f.leftover,
                 ToInteger(Num(2 * Len(f.leftover) - overflow.h - 2)),
                 Len(f.leftover)))
    ELSE [f EXCEPT !.overflow = overflow, !.pc = "metaRead"]))

\* lines 98-108
AfterSkip(f0) ==
  Const(f0, LAMBDA f :
  Const(Num(2 * f.received - f.metaint.h), LAMBDA overflow :
    IF overflow.h > 0
    THEN AfterMetaStart([f EXCEPT !.overflow = overflow],
           Slice(f.leftover,
                 ToInteger(Num(2 * Len(f.leftover) - overflow.h)),
                 Len(f.leftover)))
    ELSE [f EXCEPT !.overflow = overflow, !.pc = "metaRead"]))

\* faulty variant of SkipLoop: the loop also reads when received = metaint
SkipLoopLate(f0) ==
  Const(f0, LAMBDA f :
    IF ~f.metaint.nan /\ 2 * f.received <= f.metaint.h
    THEN [f EXCEPT !.pc = "skipRead"]
    ELSE AfterSkip(f))

\* lines 90-96, the loop test
SkipLoop(f0) ==
  Const(f0, LAMBDA f :
    IF LessThan(f.received, f.metaint)
    THEN [f EXCEPT !.pc = "skipRead"]
    ELSE AfterSkip(f))

\* lines 81-89: after fetch has resolved
AfterFetch(f, hdr) ==
  Const(ToNumber(hdr), LAMBDA metaint :
    IF Falsy(metaint)
    THEN [f EXCEPT !.opened = TRUE, !.metaint = metaint,
                   !.err = "UnsupportedStream", !.pc = "done"]
    ELSE SkipLoop([f EXCEPT !.opened = TRUE, !.metaint = metaint]))

\* faulty variant of OnSkipRead: the end of the stream leaves the loop
OnSkipReadNoCheck(f, r) ==
  IF r.rejected THEN ThrowInTry(f, "ReadFailed")
  ELSE IF r.done \/ ~r.hasValue THEN AfterSkip(f)
  ELSE SkipLoop([f EXCEPT !.received = @ + Len(r.value),
                          !.leftover = r.value])

\* lines 91-95: the read of the skip loop has settled with r
OnSkipRead(f, r) ==
  IF r.rejected THEN ThrowInTry(f, "ReadFailed")
  ELSE IF r.done \/ ~r.hasValue THEN ThrowInTry(f, "StreamEndedEarly")
  ELSE SkipLoop([f EXCEPT !.received = @ + Len(r.value),
                          !.leftover = r.value])

\* faulty variant of OnMetaRead: a missing value is taken as an empty chunk
OnMetaReadNoCheck(f, r) ==
  IF r.rejected THEN ThrowInTry(f, "ReadFailed")
  ELSE AfterMetaStart(f, r.value)

\* lines 105-107
OnMetaRead(f, r) ==
  IF r.rejected THEN ThrowInTry(f, "ReadFailed")
  ELSE IF ~r.hasValue THEN ThrowInTry(f, "MetadataReadFailed")
  ELSE AfterMetaStart(f, r.value)

\* faulty variant of OnPayloadRead: the end of the stream is an error
OnPayloadReadStrict(f, r) ==
  IF r.rejected THEN ThrowInTry(f, "ReadFailed")
  ELSE IF ~r.hasValue THEN ThrowInTry(f, "MetadataReadFailed")
  ELSE PayloadLoop([f EXCEPT !.metadata = concat(@, r.value)])

\* faulty variant of OnPayloadRead: a rejected read is made again
OnPayloadReadRetry(f, r) ==
  IF r.rejected THEN f
  ELSE IF ~r.hasValue THEN Return(f)
  ELSE PayloadLoop([f EXCEPT !.metadata = concat(@, r.value)])

\* lines 116-118
OnPayloadRead(f, r) ==
  IF r.rejected THEN ThrowInTry(f, "ReadFailed")
  ELSE IF ~r.hasValue THEN Return(f)
  ELSE PayloadLoop([f EXCEPT !.metadata = concat(@, r.value)])

\* ------------------------------------------------------------- the reader
\* What one reader.read() can settle with: a non-empty chunk of the bytes
\* that remain, { done: true, value: undefined } when none remain, or a
\* rejection.  The reader that hands out the body as one chunk (whole[p])
\* does not reject.
ChunkRead(v) ==
  [rejected |-> FALSE, done |-> FALSE, hasValue |-> TRUE, value |-> v]
EndRead ==
  [rejected |-> FALSE, done |-> TRUE, hasValue |-> FALSE, value |-> << >>]
FailedRead ==
  [rejected |-> TRUE, done |-> FALSE, hasValue |-> FALSE, value |-> << >>]

ChunkLengths(p) ==
  LET rest == Len(body[p]) - pos[p]
  IN  IF whole[p] THEN {rest} ELSE (1..Min(MaxChunk, rest)) \cup {rest}

ReadResults(p) ==
  (IF whole[p] THEN {} ELSE {FailedRead})
    \cup (IF pos[p] = Len(body[p])
          THEN {EndRead}
          ELSE { ChunkRead(SubSeq(body[p], pos[p] + 1, pos[p] + n)) :
                   n \in ChunkLengths(p) })

\* faulty variant of Pulled: the calls share one reader and one cursor
PulledShared(p, r) ==
  /\ pos' = [q \in Procs |-> pos[q] + Len(r.value)]
  /\ pulls' = [pulls EXCEPT ![p] = @ + 1]
  /\ closed' = [closed EXCEPT ![p] = r.done]

\* the reader's own state after it has answered r
Pulled(p, r) ==
  /\ pos' = [pos EXCEPT ![p] = @ + Len(r.value)]
  /\ pulls' = [pulls EXCEPT ![p] = @ + 1]
  /\ closed' = [closed EXCEPT ![p] = r.done]

\* ----------------------------------------------------------------- actions
Fetch(p) ==
  /\ call[p].pc = "fetch"
  /\ call' = [call EXCEPT ![p] = AfterFetch(@, header[p])]
  /\ UNCHANGED << header, body, whole, pos, pulls, closed, decIn, decOut >>

SkipRead(p) ==
  /\ call[p].pc = "skipRead"
  /\ \E r \in ReadResults(p) :
       /\ Pulled(p, r)
       /\ call' = [call EXCEPT ![p] = OnSkipRead(@, r)]
  /\ UNCHANGED << header, body, whole, decIn, decOut >>

MetaRead(p) ==
  /\ call[p].pc = "metaRead"
  /\ \E r \in ReadResults(p) :
       /\ Pulled(p, r)
       /\ call' = [call EXCEPT ![p] = OnMetaRead(@, r)]
  /\ UNCHANGED << header, body, whole, decIn, decOut >>

PayloadRead(p) ==
  /\ call[p].pc = "payloadRead"
  /\ \E r \in ReadResults(p) :
       /\ Pulled(p, r)
       /\ call' = [call EXCEPT ![p] = OnPayloadRead(@, r)]
  /\ UNCHANGED << header, body, whole, decIn, decOut >>

\* Two calls of parseOnce on the same stream: call 1 is served in chunks of
\* any lengths and its reads can be rejected, call 2 gets every read
\* answered with all the bytes that remain (the body as one chunk).
Init ==
  /\ \E hdr \in HeaderValues, b \in Bodies :
       /\ header = [p \in Procs |-> hdr]
       /\ body = [p \in Procs |-> b]
  /\ whole = [p \in Procs |-> p = 2]
  /\ pos = [p \in Procs |-> 0]
  /\ pulls = [p \in Procs |-> 0]
  /\ closed = [p \in Procs |-> FALSE]
  /\ call = [p \in Procs |-> NewCall]
  /\ decIn = << >>
  /\ decOut = NoRecord

\* one resumption of call p
Resume(p) ==
  \/ Fetch(p)
  \/ SkipRead(p)
  \/ MetaRead(p)
  \/ PayloadRead(p)

Next == \E p \in Procs : Resume(p)

Spec == Init /\ [][Next]_vars

\* Every awaited promise settles: the server answers the request, and the
\* reader answers each read with a chunk, with done or with a rejection.
\* Termination is checked on the bodies cut from two of the blocks, after
\* one audio byte.
LiveBodies ==
  UNION { Prefixes(Fill(1, 1) \o blk) : blk \in {BlockEmpty, BlockTitleY} }

InitLive == Init /\ body[1] \in LiveBodies

FairSpec ==
  InitLive /\ [][Next]_vars /\ \A p \in Procs : WF_vars(Resume(p))

\* Two calls of parseOnce on one IcyParser, each with its own response: the
\* server answers the two requests with headers and bodies of its choice,
\* and both readers hand out chunks of any lengths and can reject a read.
PairHeaders ==
  { [kind |-> "missing", h |-> 0] } \cup { Numeral(2 * n) : n \in 1..MaxInterval }

PairBodies ==
  UNION { Prefixes(Fill(1, 1) \o blk) :
            blk \in { BlockEmpty, SubSeq(BlockNuls, 1, 4) } }

InitPair ==
  /\ header \in [Procs -> PairHeaders]
  /\ body \in [Procs -> PairBodies]
  /\ whole = [p \in Procs |-> FALSE]
  /\ pos = [p \in Procs |-> 0]
  /\ pulls = [p \in Procs |-> 0]
  /\ closed = [p \in Procs |-> FALSE]
  /\ call = [p \in Procs |-> NewCall]
  /\ decIn = << >>
  /\ decOut = NoRecord

SpecPair == InitPair /\ [][Next]_vars

\* One call running alone on a response with header hdr whose body b comes
\* as one chunk: Settle is the resumption of the call on the read result r,
\* by the read it waits for.
Settle(f, r) ==
  IF f.pc = "skipRead" THEN OnSkipRead(f, r)
  ELSE IF f.pc = "metaRead" THEN OnMetaRead(f, r)
  ELSE OnPayloadRead(f, r)

RECURSIVE RunAlone(_, _)
RunAlone(f0, rest) ==
  Const(f0, LAMBDA f :
    IF f.pc = "done" THEN f
    ELSE IF rest = << >> THEN RunAlone(Settle(f, EndRead), << >>)
    ELSE RunAlone(Settle(f, ChunkRead(rest)), << >>))

Alone(hdr, b) == RunAlone(AfterFetch(NewCall, hdr), b)

\* Two streams with the same positive integer interval n and bodies of the
\* same length: the second has other values in the audio bytes before offset
\* n, or other values in the bytes after the end of the block that the
\* length byte at offset n declares.
AudioValues == { NUL, 2 }
TailValues  == { NUL, QUOTE }

AudioTwin(b, n, x) == [i \in 1..Len(b) |-> IF i <= n THEN x ELSE b[i]]

TailTwin(b, n, y) ==
  IF Len(b) < n + 1 THEN b
  ELSE [i \in 1..Len(b) |->
          IF i > n + 1 + b[n + 1] * BlockUnit THEN y ELSE b[i]]

Twins(b, n) ==
  {b} \cup { AudioTwin(b, n, x) : x \in AudioValues }
      \cup { TailTwin(b, n, y) : y \in TailValues }

InitTwin ==
  /\ \E n \in 1..MaxInterval, b \in LiveBodies :
       /\ header = [p \in Procs |-> Numeral(2 * n)]
       /\ \E t \in Twins(b, n) : body = [p \in Procs |-> IF p = 1 THEN b ELSE t]
  /\ whole = [p \in Procs |-> p = 2]
  /\ pos = [p \in Procs |-> 0]
  /\ pulls = [p \in Procs |-> 0]
  /\ closed = [p \in Procs |-> FALSE]
  /\ call = [p \in Procs |-> NewCall]
  /\ decIn = << >>
  /\ decOut = NoRecord

SpecTwin == InitTwin /\ [][Next]_vars

\* ------------------------------------------------------ the decoder alone
\* Input strings of the decoder: up to MaxTokens pieces of metadata text.
Tokens ==
  { StreamTitleKey,                                  \* StreamTitle='
    SubSeq(StreamTitleKey, 1, 12),                   \* StreamTitle=
    << 83, 116, 114, 101, 97, 109, 85, 114, 108, 61, QUOTE >>,  \* StreamUrl='
    << QUOTE >>, << 59 >>, << 65 >>, << NUL >> }

RECURSIVE Strings(_)
Strings(n) ==
  IF n = 0 THEN { << >> }
  ELSE LET S == Strings(n - 1) IN S \cup { s \o t : s \in S, t \in Tokens }

InitDecode ==
  /\ decIn \in Strings(MaxTokens)
  /\ decOut = NoRecord
  /\ header = [p \in Procs |-> [kind |-> "missing", h |-> 0]]
  /\ body = [p \in Procs |-> << >>]
  /\ whole = [p \in Procs |-> p = 2]
  /\ pos = [p \in Procs |-> 0]
  /\ pulls = [p \in Procs |-> 0]
  /\ closed = [p \in Procs |-> FALSE]
  /\ call = [p \in Procs |-> NewCall]

\* the record is built from the string decIn
Decode ==
  /\ ~decOut.returned
  /\ decOut' = Record(decIn)
  /\ UNCHANGED << header, body, whole, pos, pulls, closed, call, decIn >>

NextDecode == Decode

SpecDecode == InitDecode /\ [][NextDecode]_vars

\* ------------------------------------------------------------- properties
Done(p)      == call[p].pc = "done"
Returned(p)  == call[p].ret.returned
ReadFailed(p) == call[p].err = "ReadFailed"

\* the header is the numeral of a positive integer; Interval(p) is its value
PositiveInteger(p) ==
  /\ header[p].kind = "numeral"
  /\ header[p].h > 0
  /\ header[p].h % 2 = 0
Interval(p) == header[p].h \div 2

\* the body holds a length byte at offset Interval(p), and DeclaredLength(p)
\* is the length it declares
HasLengthByte(p)  == Len(body[p]) >= Interval(p) + 1
DeclaredLength(p) == body[p][Interval(p) + 1] * BlockUnit

\* C1: chunking independence.  Both calls get the same header and the same
\* body bytes; call 1 in chunks of any lengths, call 2 as one chunk.  When no
\* read was rejected they end with the same error or the same record.  (As
\* every chunking agrees with the one-chunk delivery, any two agree.)
C1_ChunkingIndependence ==
  (Done(1) /\ Done(2) /\ ~ReadFailed(1) /\ ~ReadFailed(2))
    => /\ call[1].err = call[2].err
       /\ call[1].ret = call[2].ret

\* C1 witness: a title extracted from many small chunks and from one chunk
C1_Witness ==
  /\ Done(1) /\ Done(2)
  /\ Returned(1) /\ Returned(2)
  /\ pulls[1] >= 4 /\ pulls[2] = 1
  /\ call[1].ret.title.defined
  /\ call[1].overflow.h = 0 /\ call[2].overflow.h > 0

\* C2 (as claimed): once fetch has resolved, every way out of parseOnce has
\* aborted the connection exactly once.
C2_CleanupExactlyOnce ==
  \A p \in Procs :
    /\ call[p].aborts <= 1
    /\ (Done(p) /\ call[p].opened) => call[p].aborts = 1

\* C3: declared length.  For a positive integer interval N and a body that
\* holds the length byte L and at least L * 16 bytes after it, the block is
\* exactly the L * 16 bytes after the length byte, whatever else was pulled;
\* for L = 0 the raw string is empty and the title is unset, without error.
C3_DeclaredLength ==
  \A p \in Procs :
    ( /\ Done(p) /\ ~ReadFailed(p)
      /\ PositiveInteger(p)
      /\ HasLengthByte(p)
      /\ Len(body[p]) >= Interval(p) + 1 + DeclaredLength(p) )
    => /\ call[p].err = "none"
       /\ Returned(p)
       /\ Len(call[p].block) = DeclaredLength(p)
       /\ Len(call[p].block) <= 255 * BlockUnit
       /\ call[p].block = SubSeq(body[p], Interval(p) + 2,
                                 Interval(p) + 1 + DeclaredLength(p))
       /\ (DeclaredLength(p) = 0 =>
             /\ call[p].ret.raw = << >>
             /\ call[p].ret.title = Undefined)

\* C3 witness: a 16-byte block taken although more bytes had been pulled
C3_Witness ==
  \E p \in Procs :
    /\ Done(p) /\ Returned(p) /\ PositiveInteger(p)
    /\ HasLengthByte(p)
    /\ DeclaredLength(p) = BlockUnit
    /\ pos[p] > Interval(p) + 1 + BlockUnit
    /\ Len(call[p].block) = BlockUnit

\* C4: StreamEndedEarly.  When the reader answers done while fewer bytes than
\* the interval have been received, the call is over with StreamEndedEarly
\* and without a record.
C4_StreamEndedEarly ==
  \A p \in Procs :
    (closed[p] /\ LessThan(call[p].received, call[p].metaint))
    => /\ Done(p)
       /\ call[p].err = "StreamEndedEarly"
       /\ ~Returned(p)

\* C4 witness: the stream closed after some audio, short of the interval
C4_Witness ==
  \E p \in Procs :
    /\ closed[p]
    /\ call[p].received > 0
    /\ LessThan(call[p].received, call[p].metaint)
    /\ call[p].err = "StreamEndedEarly"

\* C5 (as claimed): a header that is missing, zero or not the numeral of a
\* positive integer ends the call with UnsupportedStream and without a pull.
C5_UnsupportedStream ==
  \A p \in Procs :
    (Done(p) /\ ~PositiveInteger(p))
    => /\ call[p].err = "UnsupportedStream"
       /\ pulls[p] = 0

\* C6: MetadataReadFailed.  The call waits for the read of line 105 only
\* when the skip ended exactly on the boundary; that wait ends with exactly
\* one pull; when the pull is answered done the call is over with
\* MetadataReadFailed and without a record, and when it is answered with a
\* chunk the first byte of that chunk is the length byte.
C6_MetadataReadFailed ==
  [][\A p \in Procs :
       /\ call[p].pc = "metaRead" =>
            /\ call[p].overflow = Num(0)
            /\ pos[p] = call[p].received
       /\ (call[p].pc = "metaRead" /\ call'[p].pc # "metaRead") =>
            /\ pulls'[p] = pulls[p] + 1
            /\ closed'[p] =>
                 /\ call'[p].pc = "done"
                 /\ call'[p].err = "MetadataReadFailed"
                 /\ ~call'[p].ret.returned
            /\ (~closed'[p] /\ call'[p].err # "ReadFailed") =>
                 call'[p].lengthByte = Defined(body[p][pos[p] + 1])
    ]_vars

\* C6 witness: the stream closed exactly on the boundary
C6_Witness ==
  \E p \in Procs :
    /\ Done(p) /\ closed[p]
    /\ call[p].overflow = Num(0)
    /\ pulls[p] >= 3
    /\ pos[p] = call[p].received
    /\ call[p].err = "MetadataReadFailed"

\* C7: truncated payload.  For a positive integer interval N and a body that
\* holds the length byte L but fewer than L * 16 bytes after it, the call
\* reads to the end of the stream and returns a record, without error, whose
\* block is all the bytes after the length byte.
C7_TruncatedPayload ==
  \A p \in Procs :
    ( /\ Done(p) /\ ~ReadFailed(p)
      /\ PositiveInteger(p)
      /\ HasLengthByte(p)
      /\ Len(body[p]) < Interval(p) + 1 + DeclaredLength(p) )
    => /\ call[p].err = "none"
       /\ Returned(p)
       /\ closed[p]
       /\ call[p].block = SubSeq(body[p], Interval(p) + 2, Len(body[p]))
       /\ Len(call[p].block) < DeclaredLength(p)

\* C7 witness: a record built from a payload cut short by the end of stream
C7_Witness ==
  \E p \in Procs :
    /\ Done(p) /\ Returned(p) /\ closed[p]
    /\ PositiveInteger(p) /\ HasLengthByte(p)
    /\ DeclaredLength(p) = BlockUnit
    /\ Len(call[p].block) > 0
    /\ Len(call[p].block) < BlockUnit
    /\ call[p].ret.raw # << >>

\* C9: NUL trimming.  The raw string is the decoded block without its
\* maximal run of NULs at the end: the decoded block is the raw string
\* followed by NULs only, and the raw string does not end with a NUL.
C9_NulTrimming ==
  \A p \in Procs :
    Returned(p) =>
      LET d   == TextDecode(call[p].block)
          raw == call[p].ret.raw
      IN  /\ Len(raw) <= Len(d)
          /\ raw = SubSeq(d, 1, Len(raw))
          /\ \A j \in (Len(raw) + 1)..Len(d) : d[j] = NUL
          /\ Len(raw) > 0 => raw[Len(raw)] # NUL

\* C9 witness: a NUL inside the text is kept, the NULs after it are removed
C9_Witness ==
  \E p \in Procs :
    /\ Returned(p)
    /\ Len(call[p].block) = BlockUnit
    /\ Len(call[p].ret.raw) = 3
    /\ call[p].ret.raw[2] = NUL

\* C8: single terminating outcome.  Every call ends, and a call that has
\* ended has exactly one outcome, a record or one of the errors; a call that
\* has not ended has none.
Errors == { "UnsupportedStream", "StreamEndedEarly", "MetadataReadFailed",
            "ReadFailed" }

OneOutcome(p) ==
  /\ call[p].err \in Errors \cup {"none"}
  /\ Done(p) => (Returned(p) <=> call[p].err = "none")
  /\ ~Done(p) => (~Returned(p) /\ call[p].err = "none")

C8_SingleOutcome ==
  /\ \A p \in Procs : <>Done(p)
  /\ [](\A p \in Procs : OneOutcome(p))

\* C8 witness: both kinds of outcome, a record after a body read to its end
C8_Witness ==
  /\ Done(1) /\ Done(2)
  /\ call[1].err = "ReadFailed" /\ pulls[1] >= 3
  /\ closed[2] /\ Returned(2) /\ pulls[2] = 2

\* C10: decoder result.  Every input string can be decoded; title is the
\* text between the first StreamTitle=' that has a quote after it and the
\* first quote after it (empty when the quote follows at once); title is
\* unset when there is no such place; the raw string is the input, unchanged.
TitleStarts(s) ==
  { i \in 1..Len(s) :
      /\ i + Len(StreamTitleKey) - 1 <= Len(s)
      /\ SubSeq(s, i, i + Len(StreamTitleKey) - 1) = StreamTitleKey
      /\ \E q \in (i + Len(StreamTitleKey))..Len(s) : s[q] = QUOTE }

C10_DecoderResult ==
  /\ ~decOut.returned => ENABLED Decode
  /\ decOut.returned =>
       /\ decOut.raw = decIn
       /\ IF TitleStarts(decIn) = {}
          THEN decOut.title = Undefined
          ELSE LET i == CHOOSE k \in TitleStarts(decIn) :
                          \A m \in TitleStarts(decIn) : k <= m
                   from == i + Len(StreamTitleKey)
                   q == CHOOSE k \in from..Len(decIn) :
                          /\ decIn[k] = QUOTE
                          /\ \A m \in from..(k - 1) : decIn[m] # QUOTE
               IN  decOut.title = Defined(SubSeq(decIn, from, q - 1))

\* C10 witness: StreamTitle='A'' gives A, the first quote ends the value
C10_Witness ==
  /\ decOut.returned
  /\ decOut.title = Defined(<< 65 >>)
  /\ Len(decIn) = Len(StreamTitleKey) + 3
  /\ decIn[Len(decIn)] = QUOTE

\* C11: single-shot reading.  A call whose payload has reached the declared
\* length (at once when the length byte is 0) makes no further pull, and a
\* call that has ended makes none.  For a positive integer interval N every
\* pull is one pull and is made while the bytes handed out so far end before
\* the end of the first block: before offset N + 1, or, with length byte L,
\* before offset N + 1 + L * 16.
PayloadComplete(p) ==
  /\ call[p].lengthByte.defined
  /\ Len(call[p].metadata) >= call[p].lengthByte.value * BlockUnit

C11_SingleShot ==
  [][\A p \in Procs :
       /\ (PayloadComplete(p) \/ Done(p)) =>
            /\ pulls'[p] = pulls[p]
            /\ pos'[p] = pos[p]
       /\ PayloadComplete(p) => Done(p)
       /\ (PositiveInteger(p) /\ pulls'[p] # pulls[p]) =>
            /\ pulls'[p] = pulls[p] + 1
            /\ \/ pos[p] < Interval(p) + 1
               \/ /\ HasLengthByte(p)
                  /\ pos[p] < Interval(p) + 1 + DeclaredLength(p)
    ]_vars

\* C11 witness: the call returned after pulling the last byte of a 16-byte
\* block in small chunks, and the byte after the block was not pulled
C11_Witness ==
  \E p \in Procs :
    /\ Done(p) /\ Returned(p) /\ PositiveInteger(p)
    /\ HasLengthByte(p)
    /\ DeclaredLength(p) = BlockUnit
    /\ pulls[p] >= 5
    /\ pos[p] = Interval(p) + 1 + BlockUnit
    /\ pos[p] < Len(body[p])

\* C12: no retry.  A pull that hands out no byte and does not report the end
\* of the stream is a rejected read.  The step that takes the rejection ends
\* the call with ReadFailed, without a record, with the connection aborted
\* and the reader released, and a call that has failed so pulls no more.
RejectedPull(p) ==
  /\ pulls'[p] = pulls[p] + 1
  /\ pos'[p] = pos[p]
  /\ ~closed'[p]

C12_NoRetry ==
  [][\A p \in Procs :
       /\ RejectedPull(p) =>
            /\ call'[p].pc = "done"
            /\ call'[p].err = "ReadFailed"
            /\ ~call'[p].ret.returned
            /\ call'[p].aborts = 1
            /\ call'[p].releases = 1
       /\ ReadFailed(p) =>
            /\ pulls'[p] = pulls[p]
            /\ call'[p] = call[p]
    ]_vars

\* C12 witness: a read of the payload loop was rejected while bytes of the
\* block were still to come, and the call ended there
C12_Witness ==
  \E p \in Procs :
    /\ Done(p) /\ ReadFailed(p) /\ ~Returned(p)
    /\ PositiveInteger(p) /\ HasLengthByte(p)
    /\ call[p].lengthByte.defined
    /\ pulls[p] >= 3
    /\ pos[p] < Interval(p) + 1 + DeclaredLength(p)
    /\ pos[p] < Len(body[p])
    /\ call[p].aborts = 1

\* C13: independence of concurrent calls.  Two calls on one IcyParser, each
\* with its own response, their resumptions interleaved in any order: a step
\* of one call changes neither the locals of the other nor its reader, and a
\* call that ends without a rejected read ends as it does running alone on
\* its own response, a call with a rejected read ends with ReadFailed.
Moves(p) ==
  \/ call'[p] # call[p]
  \/ pulls'[p] # pulls[p]
  \/ pos'[p] # pos[p]
  \/ closed'[p] # closed[p]

Outcome(f) == << f.err, f.ret >>

C13_Independence ==
  /\ [](\A p \in Procs :
         Done(p) =>
           IF ReadFailed(p) THEN ~Returned(p)
           ELSE Outcome(call[p]) = Outcome(Alone(header[p], body[p])))
  /\ [][\A p \in Procs : \A q \in Procs \ {p} :
          Moves(p) =>
            /\ ~Moves(q)
            /\ header'[q] = header[q]
            /\ body'[q] = body[q]
       ]_vars

\* C13 witness: on different responses, call 2 has failed on a stream that
\* ends on the boundary and call 1 has returned the text of a block that
\* came in several chunks
C13_Witness ==
  /\ header[1] # header[2]
  /\ body[1] # body[2]
  /\ Done(1) /\ Returned(1) /\ Len(call[1].ret.raw) = 3
  /\ pulls[1] >= 5
  /\ Done(2) /\ call[2].err = "MetadataReadFailed"
  /\ pulls[2] >= 2

\* the end of the first block in the body, and the bytes the call has pulled
\* that lie after it
BlockEnd(p)   == Interval(p) + 1 + DeclaredLength(p)
PulledPast(p) == SubSeq(body[p], BlockEnd(p) + 1, pos[p])

FullBlock(p) ==
  /\ PositiveInteger(p)
  /\ HasLengthByte(p)
  /\ Len(body[p]) >= BlockEnd(p)

\* C14 (as claimed): a call that returns after pulling bytes that lie after
\* the end of the block returns those bytes too, in a field of the value it
\* returns.
C14_LeftoverReturned ==
  \A p \in Procs :
    (Returned(p) /\ FullBlock(p) /\ pos[p] > BlockEnd(p))
    => \E k \in DOMAIN call[p].ret \ {"returned", "raw", "title"} :
         call[p].ret[k] = PulledPast(p)

\* C14 (amended): the value returned holds the raw string and the title and
\* no bytes of the stream: it is the record built from the bytes of the
\* block alone, and the bytes pulled after the end of the block are dropped.
C14_LeftoverDropped ==
  \A p \in Procs :
    Returned(p) =>
      /\ DOMAIN call[p].ret = {"returned", "raw", "title"}
      /\ FullBlock(p) =>
           call[p].ret =
             Record(ReplaceTrailingNul(TextDecode(
               SubSeq(body[p], Interval(p) + 2, BlockEnd(p)))))

\* C14 witness: one chunk brought the audio, the block and the audio byte
\* after it; the record has the title and the byte after the block is gone
C14_Witness ==
  \E p \in Procs :
    /\ Done(p) /\ Returned(p) /\ FullBlock(p)
    /\ pulls[p] = 1
    /\ pos[p] = Len(body[p])
    /\ PulledPast(p) = << 65 >>
    /\ call[p].ret.title = Defined(<< 89 >>)

\* C15: block position and order.  For a positive integer interval N, once
\* the call has a length byte it is the byte at offset N of the body, whether
\* metaStart was cut from the chunk that crossed the boundary (then metaStart
\* is the bytes from offset N to the end of that chunk) or is the next chunk;
\* and the payload held is at every moment the bytes of the body from offset
\* N + 1 up to the last byte pulled, in the order of the body.
C15_BlockPosition ==
  \A p \in Procs :
    (PositiveInteger(p) /\ call[p].lengthByte.defined)
    => /\ HasLengthByte(p)
       /\ call[p].lengthByte = Defined(body[p][Interval(p) + 1])
       /\ call[p].metaStart[1] = body[p][Interval(p) + 1]
       /\ call[p].overflow.h > 0 =>
            call[p].metaStart =
              SubSeq(body[p], Interval(p) + 1, call[p].received)
       /\ call[p].overflow.h = 0 => call[p].received = Interval(p)
       /\ call[p].metadata = SubSeq(body[p], Interval(p) + 2, pos[p])

\* C15 witness: the same length byte found as the first byte of a chunk by
\* call 1 and inside the chunk that crossed the boundary by call 2, and the
\* payload of call 1 put together from many chunks
C15_Witness ==
  /\ PositiveInteger(1) /\ Interval(1) = 2
  /\ call[1].overflow = Num(0) /\ call[2].overflow.h > 0
  /\ call[1].lengthByte = Defined(1)
  /\ call[2].lengthByte = Defined(1)
  /\ pulls[1] >= 12
  /\ Len(call[1].metadata) >= BlockUnit
  /\ call[1].metadata[1] = 83

\* C16: cursor invariant.  For a positive integer interval N, while the call
\* waits for a read of the skip loop, received is the number of bytes the
\* reader has handed out and is below N, and leftover is the chunk pulled
\* last (empty before the first pull); the pull of a chunk keeps this, and
\* when it ends the loop, overflow = received - N with
\* 0 <= overflow < length of leftover, and for overflow > 0 metaStart is the
\* last overflow bytes of that chunk, the bytes of the body from offset N on.
C16_CursorInvariant ==
  [][\A p \in Procs :
       (PositiveInteger(p) /\ call[p].pc = "skipRead") =>
         /\ call[p].received = pos[p]
         /\ call[p].received < Interval(p)
         /\ call[p].leftover =
              SubSeq(body[p], pos[p] - Len(call[p].leftover) + 1, pos[p])
         /\ (pulls[p] = 0) = (call[p].leftover = << >>)
         /\ pos'[p] > pos[p] =>
              /\ call'[p].received = pos'[p]
              /\ call'[p].leftover = SubSeq(body[p], pos[p] + 1, pos'[p])
              /\ call'[p].pc # "skipRead" =>
                   LET overflow == call'[p].received - Interval(p)
                   IN  /\ call'[p].overflow = Num(2 * overflow)
                       /\ 0 <= overflow
                       /\ overflow < Len(call'[p].leftover)
                       /\ overflow > 0 =>
                            /\ Len(call'[p].metaStart) = overflow
                            /\ call'[p].metaStart =
                                 SubSeq(body[p], Interval(p) + 1, pos'[p])
    ]_vars

\* C16 witness: the skip loop ended with a chunk of several bytes of which
\* the first is audio and the rest is cut off as metaStart
C16_Witness ==
  \E p \in Procs :
    /\ PositiveInteger(p) /\ Interval(p) = 2
    /\ pulls[p] >= 2
    /\ call[p].pc = "payloadRead"
    /\ call[p].received = 3
    /\ Len(call[p].leftover) = 2
    /\ call[p].overflow = Num(2)
    /\ Len(call[p].metaStart) = 1

\* C17: audio content does not influence the result.  Call 1 reads a stream
\* and call 2 a stream with the same positive integer interval and the same
\* length that differs from it only in the audio bytes before the boundary or
\* only in the bytes after the end of the declared block.  When no read was
\* rejected they end with the same error, or with the same raw string and the
\* same title.  (Call 2 gets its body as one chunk; by C1 the chunk lengths
\* change no result, and every stream is also compared with itself.)
C17_AudioIndependence ==
  (Done(1) /\ Done(2) /\ ~ReadFailed(1) /\ ~ReadFailed(2))
    => /\ call[1].err = call[2].err
       /\ call[1].ret.returned = call[2].ret.returned
       /\ call[1].ret.raw = call[2].ret.raw
       /\ call[1].ret.title = call[2].ret.title

\* C17 witness: the audio byte in front of the block is 1 in one stream and
\* 2 in the other, both bytes were pulled, and both calls return the title Y
C17_Witness ==
  /\ Done(1) /\ Done(2)
  /\ call[1].ret.title = Defined(<< 89 >>)
  /\ call[2].ret.title = Defined(<< 89 >>)
  /\ Interval(1) = 1
  /\ body[1][1] = 1 /\ body[2][1] = 2
  /\ pulls[1] >= 4

\* C18: cleanup ordering.  A call waits for a read exactly when it is at one
\* of the three awaits of reader.read().  The abort and the release are made
\* once each, the abort first, in the resumption that ends the call: the one
\* that takes the answer to its last pull, or the one after fetch when the
\* call pulls nothing.  After them the call has its outcome, waits for no
\* read and pulls no more.
AwaitsRead(p) == call[p].pc \in {"skipRead", "metaRead", "payloadRead"}

C18_CleanupOrdering ==
  [][\A p \in Procs :
       /\ call[p].cleanup \in { << >>, << "abort", "release" >> }
       /\ call[p].cleanup # << >> =>
            /\ Done(p) /\ ~AwaitsRead(p)
            /\ Returned(p) \/ call[p].err # "none"
            /\ pulls'[p] = pulls[p]
            /\ pos'[p] = pos[p]
            /\ call'[p] = call[p]
       /\ (call[p].cleanup = << >> /\ call'[p].cleanup # << >>) =>
            /\ call'[p].cleanup = << "abort", "release" >>
            /\ call'[p].pc = "done"
            /\ call'[p].ret.returned \/ call'[p].err # "none"
            /\ IF AwaitsRead(p)
               THEN pulls'[p] = pulls[p] + 1
               ELSE call[p].pc = "fetch" /\ pulls'[p] = 0
       /\ pulls'[p] # pulls[p] => (AwaitsRead(p) /\ call[p].cleanup = << >>)
    ]_vars

\* C18 witness: the last pull was answered with the end of the stream, the
\* call returned a record, and the abort and the release followed
C18_Witness ==
  \E p \in Procs :
    /\ Done(p) /\ Returned(p) /\ closed[p]
    /\ pulls[p] >= 4
    /\ call[p].ret.raw # << >>
    /\ call[p].cleanup = << "abort", "release" >>
    /\ call[p].aborts = 1 /\ call[p].releases = 1

====
